---- MODULE Spec2Model ----
(***************************************************************************)
(* Model of src/app.py, the Streamlit "Interactive Data Cleaning Tool".    *)
(*                                                                         *)
(* One behaviour is one browser session.  Every step is one run of the     *)
(* script caused by one user interaction (an upload, a button click); the  *)
(* state is what survives between runs: the uploaded file and              *)
(* st.session_state (df, original_df, cleaning_log).  The quality report   *)
(* (missing_data, duplicate_count, whitespace_issues) is recomputed from   *)
(* st.session_state.df at the top of every run, so it is a set of          *)
(* operators over df, not state.                                           *)
(*                                                                         *)
(* pandas is modelled by what it does to the values: a DataFrame is a      *)
(* sequence of rows plus one dtype per column, NaN is a cell of its own    *)
(* kind, and the in-place calls (drop_duplicates, dropna, fillna on        *)
(* df[col]) update the frame st.session_state.df refers to, as they do in  *)
(* pandas 1.x / 2.x without copy-on-write.  Where those versions differ    *)
(* (the dtype fillna leaves on an object column) the model takes either.   *)
(***************************************************************************)
EXTENDS Integers, Sequences, FiniteSets, TLC

\* ------------------------------------------------------------------ bounds
\* Longest table enumerated exhaustively at upload.
MaxRows == 1

\* Longest cleaning_log explored (a no-op fill can be repeated for ever).
MaxLog == 3

\* ------------------------------------------------------------------ cells
\* Numbers are kept exactly, in units of 1/Scale.
RECURSIVE Gcd(_, _)
Gcd(a, b) == IF b = 0 THEN a ELSE Gcd(b, a % b)

RECURSIVE LcmUpTo(_)
LcmUpTo(n) == IF n <= 1 THEN 1 ELSE (LcmUpTo(n - 1) * n) \div Gcd(LcmUpTo(n - 1), n)

\* Every mean and median the model takes is over fewer than MaxRows + 2 values.
Scale == LcmUpTo(MaxRows + 2)

NaN == [kind |-> "nan", num |-> 0, str |-> <<>>]

Num(n) == [kind |-> "num", num |-> n, str |-> <<>>]

Str(s) == [kind |-> "str", num |-> 0, str |-> s]

Bool(b) == [kind |-> "bool", num |-> IF b THEN 1 ELSE 0, str |-> <<>>]

\* A number as "{val:.2f}" prints it: num is in hundredths.
Fixed2(h) == [kind |-> "fixed2", num |-> h, str |-> <<>>]

\* pd.notnull / isnull
IsNull(x) == x.kind = "nan"

\* ------------------------------------------------------------------ strings
\* Characters of the model, in code-point order.
CharRank(ch) == IF ch = " " THEN 0 ELSE 1

IsSpace(ch) == ch = " "

RECURSIVE LStrip(_)
LStrip(s) == IF s # <<>> /\ IsSpace(Head(s)) THEN LStrip(Tail(s)) ELSE s

RECURSIVE RStrip(_)
RStrip(s) ==
  IF s # <<>> /\ IsSpace(s[Len(s)]) THEN RStrip(SubSeq(s, 1, Len(s) - 1)) ELSE s

\* str.strip()
Strip(s) == LStrip(RStrip(s))

\* s < t in Python's string order
RECURSIVE StrLess(_, _)
StrLess(s, t) ==
  IF t = <<>> THEN FALSE
  ELSE IF s = <<>> THEN TRUE
  ELSE IF CharRank(Head(s)) # CharRank(Head(t)) THEN CharRank(Head(s)) < CharRank(Head(t))
  ELSE StrLess(Tail(s), Tail(t))

\* x < y for two non-null cells of one kind (the order Series.mode sorts by)
CellLess(x, y) ==
  IF x.kind = "str" /\ y.kind = "str" THEN StrLess(x.str, y.str) ELSE x.num < y.num

\* ------------------------------------------------------------------ frames
\* Header of the uploaded files; a DataFrame is [dtypes, rows], rows[i][c] the
\* cell of row i in column ColNames[c].
ColNames == <<"A", "B">>

Cols == 1..Len(ColNames)

Frame(dtypes, rows) == [dtypes |-> dtypes, rows |-> rows]

NoFrame == Frame(<<>>, <<>>)

RowIdx(t) == 1..Len(t.rows)

\* The rows of `rows` whose position is in `keep`, in order.
RECURSIVE TakeRows(_, _, _)
TakeRows(rows, keep, i) ==
  IF i > Len(rows) THEN <<>>
  ELSE (IF i \in keep THEN <<rows[i]>> ELSE <<>>) \o TakeRows(rows, keep, i + 1)

\* lib.infer_dtype(values, skipna=True) of one column.
InferKind(t, c) ==
  LET kinds == {t.rows[i][c].kind : i \in {j \in RowIdx(t) : ~IsNull(t.rows[j][c])}}
  IN  IF kinds = {} THEN "empty"
      ELSE IF kinds = {"str"} THEN "string"
      ELSE IF kinds = {"bool"} THEN "boolean"
      ELSE IF kinds = {"num"} THEN "floating"
      ELSE "mixed"

\* The dtype pd.read_csv gives a parsed column.
ReadCsvDtype(n, col) ==
  LET kinds == {col[i].kind : i \in 1..n}
  IN  IF n = 0 THEN "object"
      ELSE IF kinds \subseteq {"num"} THEN "int64"
      ELSE IF kinds \subseteq {"num", "nan"} THEN "float64"
      ELSE IF kinds \subseteq {"bool"} THEN "bool"
      ELSE "object"

\* pd.api.types.is_numeric_dtype
is_numeric(t, c) == t.dtypes[c] \in {"int64", "float64", "bool"}

\* ------------------------------------------------------------------ quality report
\* df.isnull().sum(), per column
missing_data(t, c) == Cardinality({i \in RowIdx(t) : IsNull(t.rows[i][c])})

RECURSIVE SumOver(_, _)
SumOver(f, S) ==
  IF S = {} THEN 0 ELSE LET x == CHOOSE y \in S : TRUE IN f[x] + SumOver(f, S \ {x})

total_missing(t) == SumOver([c \in Cols |-> missing_data(t, c)], Cols)

\* Mutant of duplicated: a row with a missing cell equals no other row.
duplicated_nan_unequal(t, i) ==
  \E j \in 1..(i - 1) :
    t.rows[j] = t.rows[i] /\ \A c \in Cols : ~IsNull(t.rows[i][c])

\* df.duplicated(): row i repeats an earlier row; NaN matches NaN.
duplicated(t, i) == \E j \in 1..(i - 1) : t.rows[j] = t.rows[i]

duplicate_count(t) == Cardinality({i \in RowIdx(t) : duplicated(t, i)})

\* df.select_dtypes(include=['object']).columns
string_cols(t) == {c \in Cols : t.dtypes[c] = "object"}

\* str(x) of a cell: only a str cell can carry whitespace.
PyStr(x) == IF x.kind = "str" THEN x.str ELSE <<"#">>

\* the lambda of the whitespace check
HasWhitespace(x) == IF ~IsNull(x) THEN Len(PyStr(x)) # Len(Strip(PyStr(x))) ELSE FALSE

whitespace_issues(t) ==
  SumOver([c \in Cols |->
             IF c \in string_cols(t)
             THEN Cardinality({i \in RowIdx(t) : HasWhitespace(t.rows[i][c])})
             ELSE 0], Cols)

cols_with_missing(t) == {c \in Cols : missing_data(t, c) > 0}

\* ------------------------------------------------------------------ pandas calls
\* Mutant of drop_duplicates: keep='last'.
drop_duplicates_keep_last(t) ==
  Frame(t.dtypes,
        TakeRows(t.rows,
                 {i \in RowIdx(t) : ~\E j \in (i + 1)..Len(t.rows) : t.rows[j] = t.rows[i]}, 1))

\* df.drop_duplicates(): the rows that repeat no earlier row, in order.
drop_duplicates(t) ==
  Frame(t.dtypes, TakeRows(t.rows, {i \in RowIdx(t) : ~duplicated(t, i)}, 1))

\* Mutant of dropna: without subset, a missing cell in any column drops the row.
dropna_any_column(t, c) ==
  Frame(t.dtypes,
        TakeRows(t.rows, {i \in RowIdx(t) : \A k \in Cols : ~IsNull(t.rows[i][k])}, 1))

\* df.dropna(subset=[col])
dropna(t, c) ==
  Frame(t.dtypes, TakeRows(t.rows, {i \in RowIdx(t) : ~IsNull(t.rows[i][c])}, 1))

\* Column c of t becomes f[i] in row i, with dtype dt.
SetCol(t, c, f, dt) ==
  Frame([t.dtypes EXCEPT ![c] = dt],
        [i \in RowIdx(t) |-> [t.rows[i] EXCEPT ![c] = f[i]]])

\* Series.str.strip() on one element: NaN for whatever is not a str.
StrStrip(x) == IF x.kind = "str" THEN Str(Strip(x.str)) ELSE NaN

\* The .str accessor refuses a column that holds no strings at all.
StrAccessorAllowed == {"string", "empty", "mixed"}

\* The loop `for col in string_cols: df[col] = df[col].str.strip()` from
\* column c on: a refused column raises and leaves the earlier ones trimmed.
RECURSIVE TrimFrom(_, _)
TrimFrom(t, c) ==
  IF c > Len(ColNames) THEN [df |-> t, raised |-> FALSE]
  ELSE IF c \notin string_cols(t) THEN TrimFrom(t, c + 1)
  ELSE IF InferKind(t, c) \notin StrAccessorAllowed THEN [df |-> t, raised |-> TRUE]
  ELSE TrimFrom(SetCol(t, c, [i \in RowIdx(t) |-> StrStrip(t.rows[i][c])], "object"),
                c + 1)

\* Rows of t whose cell in c is not null.
NotNullIdx(t, c) == {i \in RowIdx(t) : ~IsNull(t.rows[i][c])}

\* Series.mean(): NaN over no values.
mean(t, c) ==
  LET S == NotNullIdx(t, c)
  IN  IF S = {} THEN NaN
      ELSE Num(SumOver([i \in S |-> t.rows[i][c].num], S) \div Cardinality(S))

\* The values of column c at the rows S, ascending.
RECURSIVE SortedNums(_, _, _)
SortedNums(t, c, S) ==
  IF S = {} THEN <<>>
  ELSE LET i == CHOOSE k \in S : \A j \in S : t.rows[k][c].num <= t.rows[j][c].num
       IN  <<t.rows[i][c].num>> \o SortedNums(t, c, S \ {i})

\* Series.median(): the middle value, or the mean of the two middle ones.
median(t, c) ==
  LET v == SortedNums(t, c, NotNullIdx(t, c))
      n == Len(v)
  IN  IF n = 0 THEN NaN
      ELSE IF n % 2 = 1 THEN Num(v[(n + 1) \div 2])
      ELSE Num((v[n \div 2] + v[n \div 2 + 1]) \div 2)

\* Series.mode(): the most frequent non-null values, sorted ascending.
ModeValues(t, c) ==
  LET S == NotNullIdx(t, c)
      Count(x) == Cardinality({i \in S : t.rows[i][c] = x})
  IN  {t.rows[i][c] : i \in {k \in S : \A j \in S : Count(t.rows[j][c]) <= Count(t.rows[k][c])}}

\* Mutant of mode0: the most frequent value met first, going down the rows.
mode0_first_met(t, c) ==
  LET i == CHOOSE k \in NotNullIdx(t, c) :
             /\ t.rows[k][c] \in ModeValues(t, c)
             /\ \A j \in NotNullIdx(t, c) : t.rows[j][c] \in ModeValues(t, c) => k <= j
  IN  t.rows[i][c]

\* Series.mode()[0]; only taken when ModeValues is not empty.
mode0(t, c) ==
  CHOOSE x \in ModeValues(t, c) : \A y \in ModeValues(t, c) : x = y \/ CellLess(x, y)

\* Series.fillna(val, inplace=True) on df[c]; fillna(NaN) fills nothing.
fillna(t, c, val, dt) ==
  IF IsNull(val) THEN t
  ELSE SetCol(t, c, [i \in RowIdx(t) |-> IF IsNull(t.rows[i][c]) THEN val ELSE t.rows[i][c]], dt)

\* The dtypes fillna can leave on column c of the filled frame t: a float
\* column that took a str becomes object; an object column left with nothing
\* but bools stays object (pandas 1.x) or is downcast to bool (pandas 2.x).
FillnaDtypes(t, c, old) ==
  IF old # "object"
  THEN IF InferKind(t, c) \in {"floating", "empty"} THEN {old} ELSE {"object"}
  ELSE IF InferKind(t, c) = "boolean" /\ NotNullIdx(t, c) = RowIdx(t)
       THEN {"object", "bool"}
       ELSE {"object"}

\* "{val:.2f}"
Fmt2f(val) ==
  IF IsNull(val) THEN NaN
  ELSE Fixed2((val.num * 200 + Scale) \div (2 * Scale))

\* ------------------------------------------------------------------ export
\* The text DataFrame.to_csv writes for one cell: nothing for NaN, the
\* characters of a str, and for a number or a boolean its printed form, kept
\* as one character ("#" for the digits of num, "?" for True or False).
to_csv_field(x) ==
  IF IsNull(x) THEN Str(<<>>)
  ELSE IF x.kind = "str" THEN x
  ELSE [kind |-> "str", num |-> x.num, str |-> IF x.kind = "num" THEN <<"#">> ELSE <<"?">>]

\* df.to_csv(index=False): the fields of every data row.
to_csv(t) == [i \in RowIdx(t) |-> [c \in Cols |-> to_csv_field(t.rows[i][c])]]

\* pd.read_csv on one column of fields: an empty field is NaN; the column is
\* numeric if every other field is a number, boolean if every other field is
\* True or False, and text as written otherwise.
parse_field(lines, c, i) ==
  LET filled == {lines[j][c].str : j \in {k \in 1..Len(lines) : lines[k][c].str # <<>>}}
      f == lines[i][c]
  IN  IF f.str = <<>> THEN NaN
      ELSE IF filled = {<<"#">>} THEN Num(f.num)
      ELSE IF filled = {<<"?">>} THEN Bool(f.num = 1)
      ELSE f

\* pd.read_csv of exported text: the rows it yields.
read_csv_text(lines) ==
  [i \in 1..Len(lines) |-> [c \in Cols |-> parse_field(lines, c, i)]]

\* ------------------------------------------------------------------ uploads
NumVals == {Num(1 * Scale), Num(2 * Scale)}

StrVals == {Str(<<"a">>), Str(<<" ", "a">>)}

BoolVals == {Bool(TRUE)}

\* What one parsed CSV column can hold: numbers, text or booleans, with NaN
\* for the empty fields.
ParsedColumns(n) ==
  [1..n -> NumVals \cup {NaN}] \cup [1..n -> StrVals \cup {NaN}]
    \cup [1..n -> BoolVals \cup {NaN}]

\* pd.read_csv(uploaded_file): the frame of n rows with the columns cols.
read_csv(n, cols) ==
  Frame([c \in Cols |-> ReadCsvDtype(n, cols[c])],
        [i \in 1..n |-> [c \in Cols |-> cols[c][i]]])

RowsFrame(rows) ==
  read_csv(Len(rows), [c \in Cols |-> [i \in 1..Len(rows) |-> rows[i][c]]])

\* Longer files: the worked examples (rows A, B, A, C, B; a numeric column
\* 1, NaN, 3; a numeric column 1, NaN, 2, 100; five rows with two missing
\* cells in B), a text column beside a boolean column with an empty field,
\* a repeated row with an empty field, and a numeric and a text column with
\* one empty field each, a boolean column with an empty field before a text
\* column, a text column whose two values are equally frequent, and a
\* repeated row with a whitespace anomaly.
ExampleTables ==
  LET a == <<Num(1 * Scale), Str(<<"a">>)>>
      b == <<Num(2 * Scale), Str(<<"a">>)>>
      c == <<Num(3 * Scale), Str(<<"a">>)>>
      h == <<Num(100 * Scale), Str(<<"a">>)>>
      m == <<NaN, Str(<<"a">>)>>
      x == <<Num(1 * Scale), NaN>>
      y == <<Num(2 * Scale), NaN>>
      p == <<Str(<<" ", "a">>), Bool(TRUE)>>
      q == <<Str(<<"a">>), NaN>>
      r == <<Bool(TRUE), Str(<<" ", "a">>)>>
      u == <<NaN, Str(<<"a">>)>>
      w == <<Num(1 * Scale), Str(<<" ", "a">>)>>
  IN  { RowsFrame(<<a, b, a, c, b>>), RowsFrame(<<a, m, c>>),
        RowsFrame(<<a, m, b, h>>), RowsFrame(<<a, x, b, y, c>>),
        RowsFrame(<<p, q>>), RowsFrame(<<x, x, a>>), RowsFrame(<<m, x>>),
        RowsFrame(<<r, u>>), RowsFrame(<<a, w, x>>), RowsFrame(<<w, w>>) }

\* The files of a first upload.
Tables ==
  ExampleTables \cup
  UNION { { read_csv(n, cols) : cols \in [Cols -> ParsedColumns(n)] } : n \in 0..MaxRows }

\* The files put in the uploader while a session exists.
ReuploadTables == { RowsFrame(<< <<Num(2 * Scale), Str(<<"a">>)>> >>) }

\* What st.text_input can return for the custom value.
CustomVals == { <<>>, <<" ", "a">> }

\* ------------------------------------------------------------------ state
VARIABLES
  uploaded_file,   \* <<>> with no file in the uploader, else <<its parsed frame>>
  in_session,      \* 'df' in st.session_state
  df,              \* st.session_state.df
  original_df,     \* st.session_state.original_df
  cleaning_log,    \* st.session_state.cleaning_log
  shared,          \* st.session_state.df is st.session_state.original_df
  outcome,         \* how the last run of the script ended
  loaded           \* the frame the session was created from (history)

vars == <<uploaded_file, in_session, df, original_df, cleaning_log, shared, outcome, loaded>>

LogEntry(op, col, count, val) == [op |-> op, col |-> col, count |-> count, val |-> val]

Init ==
  /\ uploaded_file = <<>>
  /\ in_session = FALSE
  /\ df = NoFrame
  /\ original_df = NoFrame
  /\ cleaning_log = <<>>
  /\ shared = FALSE
  /\ outcome = "start"
  /\ loaded = NoFrame

\* The body of the script runs only with a file in the uploader.
HasFile == uploaded_file # <<>>

\* An in-place change of the frame df refers to: seen through original_df
\* too when both refer to one frame.
MutateDf(t) ==
  /\ df' = t
  /\ original_df' = IF shared THEN t ELSE original_df

\* Mutant of LogAppend: the log is replaced by the new entry.
LogOverwrite(e) == cleaning_log' = <<e>>

\* cleaning_log.append(...)
LogAppend(e) == cleaning_log' = Append(cleaning_log, e)

\* Mutant of options: every entry is offered for every column.
options_unchecked(t, c) ==
  {"Select an action...", "Delete rows with missing values", "Fill with Custom Value",
   "Fill with Mean", "Fill with Median", "Fill with Mode (Most Frequent)"}

\* The entries of the selectbox of column c.
options(t, c) ==
  {"Select an action...", "Delete rows with missing values", "Fill with Custom Value"}
    \cup (IF is_numeric(t, c) THEN {"Fill with Mean", "Fill with Median"}
          ELSE {"Fill with Mode (Most Frequent)"})

\* Mutant of CopyShares: the frame is assigned without .copy().
CopyAliases == TRUE

\* df.copy() yields a frame of its own.
CopyShares == FALSE

\* Mutant of ResetFrame: the current frame is kept.
ResetFrameStale == df

\* What "Reset All Changes" makes the current frame: original_df.copy().
ResetFrame == original_df

\* How a click on "Apply to '<col>'" ends with the selectbox of column c on
\* `action`; an entry the selectbox does not hold cannot be chosen.
ApplyOutcome(t, c, action) ==
  IF action \notin options(t, c) THEN "not_offered"
  ELSE IF action = "Select an action..." THEN "noop"
  ELSE IF action = "Fill with Mode (Most Frequent)" /\ ModeValues(t, c) = {} THEN "KeyError"
  ELSE "applied"

\* Mutant of Upload: every upload stores its frame as the current one, the
\* original and the log being kept.
UploadReplacesCurrent(T) ==
  /\ T \in (IF in_session THEN ReuploadTables ELSE Tables)
  /\ uploaded_file' = <<T>>
  /\ IF ~in_session
     THEN /\ in_session' = TRUE
          /\ df' = T
          /\ original_df' = T
          /\ cleaning_log' = <<>>
          /\ shared' = CopyShares
          /\ loaded' = T
     ELSE /\ df' = T
          /\ UNCHANGED <<in_session, original_df, cleaning_log, shared, loaded>>
  /\ outcome' = "uploaded"

\* A file is chosen in the uploader; the session is created once.
Upload(T) ==
  /\ T \in (IF in_session THEN ReuploadTables ELSE Tables)
  /\ uploaded_file' = <<T>>
  /\ IF ~in_session
     THEN /\ in_session' = TRUE
          /\ df' = T
          /\ original_df' = T
          /\ cleaning_log' = <<>>
          /\ shared' = CopyShares
          /\ loaded' = T
     ELSE UNCHANGED <<in_session, df, original_df, cleaning_log, shared, loaded>>
  /\ outcome' = "uploaded"

\* The file is removed from the uploader; st.session_state stays.
RemoveFile ==
  /\ HasFile
  /\ uploaded_file' = <<>>
  /\ outcome' = "removed_file"
  /\ UNCHANGED <<in_session, df, original_df, cleaning_log, shared, loaded>>

\* Mutant of RemoveDuplicates: the button is shown whatever the duplicate
\* count is.
RemoveDuplicatesAlwaysShown ==
  /\ HasFile
  /\ Len(cleaning_log) < MaxLog
  /\ MutateDf(drop_duplicates(df))
  /\ LogAppend(LogEntry("removed_duplicates", 0, duplicate_count(df), NaN))
  /\ outcome' = "removed_duplicates"
  /\ UNCHANGED <<uploaded_file, in_session, shared, loaded>>

\* "Remove All Duplicates"
RemoveDuplicates ==
  /\ HasFile
  /\ Len(cleaning_log) < MaxLog
  /\ duplicate_count(df) > 0
  /\ MutateDf(drop_duplicates(df))
  /\ LogAppend(LogEntry("removed_duplicates", 0, duplicate_count(df), NaN))
  /\ outcome' = "removed_duplicates"
  /\ UNCHANGED <<uploaded_file, in_session, shared, loaded>>

\* "Trim All Whitespace"
TrimWhitespace ==
  /\ HasFile
  /\ Len(cleaning_log) < MaxLog
  /\ whitespace_issues(df) > 0
  /\ LET r == TrimFrom(df, 1)
     IN  /\ MutateDf(r.df)
         /\ IF r.raised
            THEN /\ outcome' = "AttributeError"
                 /\ UNCHANGED cleaning_log
            ELSE /\ LogAppend(LogEntry("trimmed", 0, whitespace_issues(df), NaN))
                 /\ outcome' = "trimmed"
  /\ UNCHANGED <<uploaded_file, in_session, shared, loaded>>

\* "Apply to '<col>'" with the selectbox on `action` and the text input on
\* custom_val.
ApplyToColumn(c, action, custom_val) ==
  /\ HasFile
  /\ Len(cleaning_log) < MaxLog
  /\ total_missing(df) > 0
  /\ c \in cols_with_missing(df)
  /\ ApplyOutcome(df, c, action) # "not_offered"
  /\ outcome' = ApplyOutcome(df, c, action)
  /\ CASE action = "Delete rows with missing values" ->
            /\ MutateDf(dropna(df, c))
            /\ LogAppend(LogEntry("deleted", c, Len(df.rows) - Len(dropna(df, c).rows), NaN))
       [] action = "Fill with Mean" ->
            /\ MutateDf(fillna(df, c, mean(df, c), df.dtypes[c]))
            /\ LogAppend(LogEntry("mean", c, 0, Fmt2f(mean(df, c))))
       [] action = "Fill with Median" ->
            /\ MutateDf(fillna(df, c, median(df, c), df.dtypes[c]))
            /\ LogAppend(LogEntry("median", c, 0, median(df, c)))
       [] action = "Fill with Mode (Most Frequent)" ->
            IF ModeValues(df, c) = {}
            THEN UNCHANGED <<df, original_df, cleaning_log>>
            ELSE /\ \E dt \in FillnaDtypes(fillna(df, c, mode0(df, c), "object"), c, df.dtypes[c]) :
                      MutateDf(fillna(df, c, mode0(df, c), dt))
                 /\ LogAppend(LogEntry("mode", c, 0, mode0(df, c)))
       [] action = "Fill with Custom Value" ->
            /\ \E dt \in FillnaDtypes(fillna(df, c, Str(custom_val), "object"), c, df.dtypes[c]) :
                  MutateDf(fillna(df, c, Str(custom_val), dt))
            /\ LogAppend(LogEntry("custom", c, 0, Str(custom_val)))
       [] OTHER ->
            UNCHANGED <<df, original_df, cleaning_log>>
  /\ UNCHANGED <<uploaded_file, in_session, shared, loaded>>

\* "Reset All Changes", shown under a non-empty log
Reset ==
  /\ HasFile
  /\ cleaning_log # <<>>
  /\ df' = ResetFrame
  /\ shared' = CopyShares
  /\ cleaning_log' = <<>>
  /\ outcome' = "reset"
  /\ UNCHANGED <<uploaded_file, in_session, original_df, loaded>>

\* "Download Cleaned CSV", shown under a non-empty log: the browser receives
\* to_csv(df); the session is as it was.
Download ==
  /\ HasFile
  /\ cleaning_log # <<>>
  /\ outcome' = "downloaded"
  /\ UNCHANGED <<uploaded_file, in_session, df, original_df, cleaning_log, shared, loaded>>

\* Every label a selectbox can show.
Actions == {"Select an action...", "Delete rows with missing values", "Fill with Mean",
            "Fill with Median", "Fill with Mode (Most Frequent)", "Fill with Custom Value"}

Next ==
  \/ \E T \in Tables \cup ReuploadTables : Upload(T)
  \/ RemoveFile
  \/ RemoveDuplicates
  \/ TrimWhitespace
  \/ \E c \in Cols, action \in Actions :
       \E custom_val \in (IF action = "Fill with Custom Value" THEN CustomVals ELSE {<<>>}) :
         ApplyToColumn(c, action, custom_val)
  \/ Reset
  \/ Download

Spec == Init /\ [][Next]_vars

\* ------------------------------------------------------------------ properties
Last(s) == s[Len(s)]

\* The step appended one entry to the log.
Appended ==
  /\ Len(cleaning_log') = Len(cleaning_log) + 1
  /\ SubSeq(cleaning_log', 1, Len(cleaning_log)) = cleaning_log

\* C1: a reset leaves the current frame equal to the frame the session was
\* loaded with, and the log empty, whatever was applied before.
C1_ResetRestoresLoaded ==
  [][outcome' = "reset" => df' = loaded /\ cleaning_log' = <<>>]_vars

\* C1 witness: the five-row example is back after a reset.
C1_Witness ==
  outcome = "reset" /\ Len(df.rows) = 5 /\ duplicate_count(df) = 2 /\ df = loaded

\* C2 as claimed: a run that ends in an exception, or applies nothing, leaves
\* the current frame and the log as they were.
C2_FailedApplyChangesNothing ==
  [][outcome' \in {"AttributeError", "KeyError", "noop"}
       => df' = df /\ cleaning_log' = cleaning_log]_vars

\* C3 as claimed: the log is empty exactly when the current frame equals the
\* original one.
C3_LogEmptyIffUnchanged ==
  in_session => (cleaning_log = <<>> <=> df = original_df)

\* C4 as claimed: every upload makes its file the session's original and
\* current frame and empties the log.
C4_UploadCreatesSession ==
  [][outcome' = "uploaded"
       => uploaded_file' = <<original_df'>> /\ df' = original_df' /\ cleaning_log' = <<>>]_vars

\* C5: the original frame is the loaded one in every state of a session, and
\* the current frame is never the same object as the original.
C5_OriginalImmutable ==
  in_session => original_df = loaded /\ ~shared

\* C5 witness: operations were applied, the current frame differs, the
\* original does not.
C5_Witness ==
  in_session /\ Len(cleaning_log) >= 2 /\ df # original_df /\ original_df = loaded

\* The columns of t with missing values that are not numeric.
TextColsWithMissing(t) == {c \in cols_with_missing(t) : ~is_numeric(t, c)}

MeanOrMedian == {"Fill with Mean", "Fill with Median"}

\* C6 as claimed: on a column that is not numeric, applying the mean or the
\* median ends in a TypeMismatchError (and changes nothing).
C6_MeanOnTextRaises ==
  in_session =>
    \A c \in TextColsWithMissing(df) : \A a \in MeanOrMedian :
      ApplyOutcome(df, c, a) = "TypeMismatchError"

\* C6, amended: the mean and the median are not offered for a column that is
\* not numeric, so they cannot be applied to one: every mean or median entry
\* of the log was applied to a numeric column.
C6_MeanOnlyOnNumeric ==
  [][/\ in_session =>
          \A c \in TextColsWithMissing(df) : \A a \in MeanOrMedian :
            ApplyOutcome(df, c, a) = "not_offered"
     /\ Appended /\ Last(cleaning_log').op \in {"mean", "median"}
          => is_numeric(df, Last(cleaning_log').col)]_vars

\* C6 witness: a mean was applied while a text column has missing values.
C6_Witness ==
  /\ cleaning_log # <<>>
  /\ Last(cleaning_log).op = "mean"
  /\ outcome = "applied"
  /\ TextColsWithMissing(df) # {}

\* C7 as claimed: a custom fill with an empty value is never applied: the
\* log holds no such entry.
C7_NoEmptyCustomApplied ==
  \A i \in DOMAIN cleaning_log :
    ~(cleaning_log[i].op = "custom" /\ cleaning_log[i].val = Str(<<>>))

\* C8: a run that applies an operation appends one entry to the log and
\* keeps the earlier ones; any other run leaves the log alone, except a
\* reset, which empties it.
C8_LogAppendOnly ==
  [][/\ outcome' \in {"removed_duplicates", "trimmed", "applied"} => Appended
     /\ \/ cleaning_log' = cleaning_log
        \/ Appended
        \/ outcome' = "reset" /\ cleaning_log' = <<>>]_vars

\* C8 witness: three operations in the log, in the order applied.
C8_Witness ==
  /\ Len(cleaning_log) = 3
  /\ cleaning_log[1].op = "removed_duplicates"
  /\ cleaning_log[2].op = "custom"
  /\ cleaning_log[3].op = "trimmed"

\* The rows of `rows` not in `seen` and not repeating an earlier one, in order.
RECURSIVE FirstOccurrences(_, _)
FirstOccurrences(rows, seen) ==
  IF rows = <<>> THEN <<>>
  ELSE IF Head(rows) \in seen THEN FirstOccurrences(Tail(rows), seen)
  ELSE <<Head(rows)>> \o FirstOccurrences(Tail(rows), seen \cup {Head(rows)})

RowSet(t) == {t.rows[i] : i \in RowIdx(t)}

\* C9: removing duplicates keeps the first occurrence of every distinct row,
\* in order; the frame has no duplicates afterwards and the log entry counts
\* the rows that went.
C9_RemoveDuplicatesKeepsFirst ==
  [][outcome' = "removed_duplicates" =>
       /\ df'.rows = FirstOccurrences(df.rows, {})
       /\ df'.dtypes = df.dtypes
       /\ duplicate_count(df') = 0
       /\ Appended
       /\ Last(cleaning_log').op = "removed_duplicates"
       /\ Last(cleaning_log').count = Len(df.rows) - Len(df'.rows)]_vars

\* C9 witness: rows A, B, A, C, B have become A, B, C, with 2 in the log.
C9_Witness ==
  /\ outcome = "removed_duplicates"
  /\ Len(loaded.rows) = 5
  /\ df.rows = <<loaded.rows[1], loaded.rows[2], loaded.rows[4]>>
  /\ Last(cleaning_log).count = 2

\* C10: the duplicate count is the number of rows less the number of
\* distinct rows, two missing cells of one column being equal.
C10_DuplicateCount ==
  in_session => duplicate_count(df) = Len(df.rows) - Cardinality(RowSet(df))

\* C10 witness: a row with a missing cell is counted as a duplicate.
C10_Witness ==
  /\ in_session
  /\ duplicate_count(df) > 0
  /\ \E i \in RowIdx(df) : duplicated(df, i) /\ \E c \in Cols : IsNull(df.rows[i][c])

\* C11 as claimed: after a click on "Trim All Whitespace" the report shows no
\* whitespace issue, and trimming the frame again gives the same frame.
C11_TrimIdempotent ==
  [][outcome' \in {"trimmed", "AttributeError"} =>
       /\ whitespace_issues(df') = 0
       /\ ~TrimFrom(df', 1).raised
       /\ TrimFrom(df', 1).df = df']_vars

\* The rows of `rows` whose cell in column c is not missing, in order.
RECURSIVE WithoutMissing(_, _)
WithoutMissing(rows, c) ==
  IF rows = <<>> THEN <<>>
  ELSE (IF IsNull(Head(rows)[c]) THEN <<>> ELSE <<Head(rows)>>)
         \o WithoutMissing(Tail(rows), c)

\* The step applied an operation logged as `op`.
Logged(op) == Appended /\ Last(cleaning_log').op = op

\* C12: deleting the rows with a missing cell in column c removes those rows
\* and no other, keeps the order of the rest, leaves c without missing cells
\* and logs the number of rows that went.
C12_DeleteRows ==
  [][Logged("deleted") =>
       LET c == Last(cleaning_log').col
       IN  /\ df'.rows = WithoutMissing(df.rows, c)
           /\ df'.dtypes = df.dtypes
           /\ missing_data(df', c) = 0
           /\ Last(cleaning_log').count = Len(df.rows) - Len(df'.rows)
           /\ Last(cleaning_log').count = missing_data(df, c)]_vars

\* C12 witness: five rows with two missing cells in B have become three.
C12_Witness ==
  /\ cleaning_log = <<LogEntry("deleted", 2, 2, NaN)>>
  /\ Len(loaded.rows) = 5
  /\ df.rows = <<loaded.rows[1], loaded.rows[3], loaded.rows[5]>>

\* The numbers of column c of t, as a bag indexed by row.
ValuesOf(t, c) == [i \in NotNullIdx(t, c) |-> t.rows[i][c].num]

\* v is the arithmetic mean of the values f.
IsMeanOf(v, f) ==
  DOMAIN f # {} /\ v * Cardinality(DOMAIN f) = SumOver(f, DOMAIN f)

\* v is the median of the values f: at most half of them lie on either side,
\* and v is one of them or midway between its two neighbours.
IsMedianOf(v, f) ==
  LET below == {i \in DOMAIN f : f[i] < v}
      above == {i \in DOMAIN f : f[i] > v}
  IN  /\ DOMAIN f # {}
      /\ 2 * Cardinality(below) <= Cardinality(DOMAIN f)
      /\ 2 * Cardinality(above) <= Cardinality(DOMAIN f)
      /\ \/ \E i \in DOMAIN f : f[i] = v
         \/ \E i \in below, j \in above :
              /\ 2 * v = f[i] + f[j]
              /\ \A k \in below : f[k] <= f[i]
              /\ \A k \in above : f[j] <= f[k]

\* Column c of `after` is column c of `before` with every missing cell
\* replaced by val; nothing else differs.
FilledWith(before, after, c, val) ==
  /\ Len(after.rows) = Len(before.rows)
  /\ \A i \in RowIdx(before) : \A k \in Cols :
       after.rows[i][k] =
         IF k = c /\ IsNull(before.rows[i][k]) THEN val ELSE before.rows[i][k]

\* C13 as claimed: a fill with the mean (the median) puts the mean (the
\* median) of the values of c in every missing cell of c, changes nothing
\* else and leaves c without missing cells.
C13_FillMeanMedian ==
  [][/\ Logged("mean") =>
          LET c == Last(cleaning_log').col
          IN  \E i \in RowIdx(df') :
                /\ IsMeanOf(df'.rows[i][c].num, ValuesOf(df, c))
                /\ FilledWith(df, df', c, Num(df'.rows[i][c].num))
                /\ missing_data(df', c) = 0
     /\ Logged("median") =>
          LET c == Last(cleaning_log').col
          IN  \E i \in RowIdx(df') :
                /\ IsMedianOf(df'.rows[i][c].num, ValuesOf(df, c))
                /\ FilledWith(df, df', c, Num(df'.rows[i][c].num))
                /\ missing_data(df', c) = 0]_vars

\* How often the value x occurs in column c of t.
Occurrences(t, c, x) == Cardinality({i \in RowIdx(t) : t.rows[i][c] = x})

\* x is a most frequent non-missing value of column c of t.
MostFrequent(t, c, x) ==
  /\ \E i \in NotNullIdx(t, c) : t.rows[i][c] = x
  /\ \A j \in NotNullIdx(t, c) : Occurrences(t, c, t.rows[j][c]) <= Occurrences(t, c, x)

\* The first row of t that holds a most frequent value of column c.
FirstMostFrequentRow(t, c) ==
  CHOOSE i \in NotNullIdx(t, c) :
    /\ MostFrequent(t, c, t.rows[i][c])
    /\ \A j \in NotNullIdx(t, c) : MostFrequent(t, c, t.rows[j][c]) => i <= j

\* C14 as claimed: a fill with the mode puts a most frequent value of c in
\* every missing cell of c and logs it; of several equally frequent values it
\* takes the one met first going down the rows.
C14_ModeFirstEncountered ==
  [][Logged("mode") =>
       LET c == Last(cleaning_log').col
           v == Last(cleaning_log').val
       IN  /\ MostFrequent(df, c, v)
           /\ FilledWith(df, df', c, v)
           /\ v = df.rows[FirstMostFrequentRow(df, c)][c]]_vars

\* C14, amended: of several equally frequent values the fill takes the
\* smallest in sorted order (Series.mode() sorts its result); a column with
\* no value at all raises and is left as it was.
C14_ModeSmallest ==
  [][/\ Logged("mode") =>
          LET c == Last(cleaning_log').col
              v == Last(cleaning_log').val
          IN  /\ MostFrequent(df, c, v)
              /\ FilledWith(df, df', c, v)
              /\ missing_data(df', c) = 0
              /\ \A j \in NotNullIdx(df, c) :
                   MostFrequent(df, c, df.rows[j][c]) =>
                     v = df.rows[j][c] \/ CellLess(v, df.rows[j][c])
     /\ outcome' = "KeyError" =>
          /\ df' = df /\ cleaning_log' = cleaning_log
          /\ \E c \in TextColsWithMissing(df) : NotNullIdx(df, c) = {}]_vars

\* C14 witness: "a" and " a" are equally frequent, "a" comes first, and the
\* missing cell has been filled with " a".
C14_Witness ==
  /\ cleaning_log = <<LogEntry("mode", 2, 0, Str(<<" ", "a">>))>>
  /\ Len(df.rows) = 3
  /\ df.rows[1][2] = Str(<<"a">>)
  /\ df.rows[2][2] = Str(<<" ", "a">>)
  /\ df.rows[3][2] = Str(<<" ", "a">>)

\* C15 as claimed: whenever current is exported, loading the exported text
\* gives back current: the same rows, cell values and missing cells.
C15_ExportRoundTrip ==
  outcome = "downloaded" => read_csv_text(to_csv(df)) = df.rows

\* C16 as claimed: a trim changes only the non-missing text cells: the rows
\* keep their number and order, every column keeps its number of missing
\* cells, and every cell that is missing or not a string stays as it was.
C16_TrimFrame ==
  [][outcome' = "trimmed" =>
       /\ Len(df'.rows) = Len(df.rows)
       /\ \A c \in Cols : missing_data(df', c) = missing_data(df, c)
       /\ \A i \in RowIdx(df) : \A c \in Cols :
            IF df.rows[i][c].kind = "str"
            THEN df'.rows[i][c] = Str(Strip(df.rows[i][c].str))
            ELSE df'.rows[i][c] = df.rows[i][c]]_vars

\* The two bulk operations of the log.
BulkOps == {"removed_duplicates", "trimmed"}

\* C17: a bulk operation is applied only on a positive count: duplicates are
\* removed only when there are duplicate rows, whitespace is trimmed only
\* when there are whitespace anomalies, the step changes the table, and every
\* entry of a bulk operation in the log reports a count of at least 1.
C17_NoNoOpBulk ==
  [][/\ Logged("removed_duplicates") =>
          /\ duplicate_count(df) > 0
          /\ Last(cleaning_log').count = duplicate_count(df)
          /\ Len(df'.rows) = Len(df.rows) - duplicate_count(df)
     /\ outcome' \in {"trimmed", "AttributeError"} =>
          whitespace_issues(df) > 0
     /\ Logged("trimmed") =>
          /\ Last(cleaning_log').count = whitespace_issues(df)
          /\ df'.rows # df.rows
     /\ \A k \in 1..Len(cleaning_log') :
          cleaning_log'[k].op \in BulkOps => cleaning_log'[k].count >= 1]_vars

\* C17 witness: duplicates were removed and then whitespace trimmed, both
\* logged with their counts.
C17_Witness ==
  /\ outcome = "trimmed"
  /\ Len(cleaning_log) = 2
  /\ cleaning_log[1].op = "removed_duplicates"
  /\ cleaning_log[1].count >= 1
  /\ cleaning_log[2].op = "trimmed"
  /\ cleaning_log[2].count >= 1

\* The measure of C18: total missing cells, whitespace anomalies, rows.
Measure(t) == <<total_missing(t), whitespace_issues(t), Len(t.rows)>>

\* Lexicographic order on measures.
LexLess(m, n) ==
  \/ m[1] < n[1]
  \/ m[1] = n[1] /\ m[2] < n[2]
  \/ m[1] = n[1] /\ m[2] = n[2] /\ m[3] < n[3]

\* C18 as claimed: every applied cleaning operation (every step that appends
\* to the log) strictly decreases the measure in the lexicographic order, so
\* that only finitely many can be applied.
C18_MeasureDecreases ==
  [][Appended => LexLess(Measure(df'), Measure(df))]_vars

\* C19 as claimed: the download of current and the reset can be performed
\* exactly in the states whose log is non-empty.
C19_ExportResetIffLog ==
  /\ ENABLED Reset <=> cleaning_log # <<>>
  /\ ENABLED Download <=> cleaning_log # <<>>

\* The shape of current against original: the same columns in the same
\* order, every row holding a cell for every column, and no more rows.
ShapeOk ==
  in_session =>
    /\ Len(df.dtypes) = Len(original_df.dtypes)
    /\ Len(df.dtypes) = Len(ColNames)
    /\ \A i \in RowIdx(df) : DOMAIN df.rows[i] = Cols
    /\ \A i \in RowIdx(original_df) : DOMAIN original_df.rows[i] = Cols
    /\ Len(df.rows) <= Len(original_df.rows)

\* C20: every step of a session leaves current in the shape of original
\* (same ordered columns, columns of equal length, at most as many rows), and
\* only a reset increases the number of rows of current.
C20_ShapeInvariant ==
  [][/\ ShapeOk'
     /\ in_session /\ Len(df'.rows) > Len(df.rows) => outcome' = "reset"]_vars

\* C20 witness: rows were removed from current, which has fewer rows than
\* original and the same columns.
C20_Witness ==
  /\ in_session
  /\ cleaning_log # <<>>
  /\ Len(original_df.rows) = 5
  /\ Len(df.rows) = 3
  /\ Len(df.dtypes) = Len(original_df.dtypes)

====
